---- MODULE Spec2Model ----
(***************************************************************************)
(* go24k: encoder selection (getOptimalVideoSettings), the filter graph    *)
(* and the ffmpeg argument vector built by GenerateVideo                   *)
(* (src/utils/generateVideo.go).                                           *)
(*                                                                         *)
(* Two runs of the program are modelled:                                   *)
(*   Spec     - main -> GenerateVideo: one video run, followed statement   *)
(*              by statement from the glob of converted/*.jpg to the       *)
(*              result report;                                             *)
(*   SpecEnv  - main -debug -> ShowEnvironmentInfo: the capability probes  *)
(*              and the encoder selection on a host fixed for the run.     *)
(*                                                                         *)
(* The filter graph is kept as the sequence of its "; "-terminated nodes,  *)
(* each node with its input pads, its ","-chained filters and its output   *)
(* pad; pads and arguments are the strings the code formats.               *)
(***************************************************************************)
EXTENDS Integers, Sequences, FiniteSets, TLC

\* ---- bounds of the model ------------------------------------------------
MaxN == 3      \* at most MaxN files match converted/*.jpg
MaxD == 5      \* -d: per-image duration in 1..MaxD
MaxF == 2      \* -t: transition duration in 0..MaxF
MaxMusic == 2  \* at most MaxMusic files match *.mp3

\* ---- program constants --------------------------------------------------
resolution4K == "3840x2160"
KenBurnsFps == 30
AudioFadeIn == 2
AudioFadeOut == 4

VARIABLES
    \* main -> GenerateVideo
    pc,             \* position of the main flow
    duration, fadeDuration, applyKenBurns, exifOverlay,   \* parameters
    files,          \* result of Glob("converted/*.jpg")
    index, inputs, filterComplex,
    xi,             \* loop variable i of the crossfade loop
    totalDuration, startFadeOut, finalLength,
    musicFiles, hasAudio, mapArgs,
    args,           \* argument vector handed to exec.Command("ffmpeg", ...)
    done,           \* the spinner's done channel: "none", "open", "closed"
    report,         \* lines of the result report printed so far
    fatal,          \* message of log.Fatalf, "" while the run goes on
    spawned,        \* kinds of subprocess started so far:
                    \* "probe" (encoder listing or test encode),
                    \* "encode", "ffprobe"
    outFiles,       \* files the run has caused to be written
    waitErr,        \* err of cmd.Wait(): "none" before it returns, "nil",
                    \* "failed"
    encodes,        \* number of encode subprocesses started
    spin,           \* the spinner goroutine: "none", "select" (at the select),
                    \* "default" (took the default case, frame not yet
                    \* printed), "returned", "killed" (process exited)
    lateFrames,     \* progress frames printed after close(done)
    closes,         \* number of close(done) executed
    videoInfo,      \* what getVideoDetails returned, <<>> before the call
    \* main -debug -> ShowEnvironmentInfo
    host,           \* what ffmpeg does on this host
    dpc,            \* position in ShowEnvironmentInfo
    has,            \* hasNVENC .. hasVAAPI of ShowEnvironmentInfo
    shown,          \* what ShowEnvironmentInfo has printed
    settings,       \* value returned by getOptimalVideoSettings
    calls,          \* calls of getOptimalVideoSettings that have returned:
                    \* the probe results each observed and what it returned
    \* main -> ConvertImages
    cpc,            \* position in ConvertImages
    jpgFiles,       \* the *.jpg files of the working directory
    convertedDir,   \* "converted" exists
    convertedFiles, \* files in "converted"
    ci,             \* loop variable i of the conversion loop
    convErr,        \* error returned by ConvertImages, "nil" for none,
                    \* "" while it has not returned
    skipped,        \* the call took the "already exists" path
    convertCalls,   \* number of calls of ConvertImages so far
    \* GenerateVideo: the EXIF overlay of one clip
    opc,            \* position in the overlay step
    frameName,      \* the converted file the clip shows
    originalFile,   \* what GetOriginalFilename returned
    cameraInfo,     \* what ExtractCameraInfo returned
    clipOverlay,    \* overlayText: what FormatCameraInfoOverlay returned
    drawn,          \* what the step appends to videoFilter
    \* getVideoDetails -> extractDuration
    ppc,            \* position in extractDuration
    outputStr,      \* output of ffprobe: its lines, each one split at the
                    \* double quotes
    lineNo,         \* the line the loop of extractDuration is at
    durationSec     \* value returned by extractDuration

videoVars == <<pc, duration, fadeDuration, applyKenBurns, exifOverlay, files,
               index, inputs, filterComplex, xi, totalDuration, startFadeOut,
               finalLength, musicFiles, hasAudio, mapArgs, args, done, report,
               fatal, outFiles, waitErr, encodes, spin, lateFrames, closes,
               videoInfo>>
runVars == <<waitErr, encodes, spin, lateFrames, closes, videoInfo>>
envVars == <<host, dpc, has, shown>>
convVars == <<cpc, jpgFiles, convertedDir, convertedFiles, ci, convErr,
              skipped, convertCalls>>
ovVars == <<opc, frameName, originalFile, cameraInfo, clipOverlay, drawn>>
probeVars == <<ppc, outputStr, lineNo, durationSec>>
pureVars == <<ovVars, probeVars>>
otherVars == <<calls, convVars, pureVars>>
vars == <<videoVars, envVars, settings, spawned, otherVars>>

\* ---- small helpers ------------------------------------------------------
\* fmt.Sprintf("%d", n)
Itoa(n) == ToString(n)

Range(s) == {s[k] : k \in 1..Len(s)}

\* ---- the host: what the ffmpeg subprocesses do --------------------------
NVENC == "h264_nvenc"
VideoToolbox == "h264_videotoolbox"
MediaFoundation == "h264_mf"
QSV == "h264_qsv"
AMF == "h264_amf"
VAAPI == "h264_vaapi"
libx264 == "libx264"

HwCodecs == {NVENC, VideoToolbox, MediaFoundation, QSV, AMF, VAAPI}

\* encodersOK: `ffmpeg -encoders` can be run and exits zero;
\* listed:     hardware encoders named in its output;
\* working:    encoders whose synthetic test encode exits zero (an encoder
\*             ffmpeg does not know cannot be run, hence working \subseteq listed).
Hosts == {h \in [encodersOK : BOOLEAN, listed : SUBSET HwCodecs,
                 working : SUBSET HwCodecs] : h.working \subseteq h.listed}

\* exec.Command("ffmpeg", "-encoders").Output()
listEncoders(h) ==
    [err |-> ~h.encodersOK, output |-> IF h.encodersOK THEN h.listed ELSE {}]

\* exec.Command("ffmpeg", "-f", "lavfi", ..., "-c:v", codec, "-f", "null", "-").Run() == nil
smokeTest(h, codec) == codec \in h.working

\* Each check is the function's result on host h.

checkNVENCAvailable(h) ==
    LET r == listEncoders(h) IN
    IF r.err THEN FALSE
    ELSE IF NVENC \notin r.output THEN FALSE
    ELSE smokeTest(h, NVENC)

checkQSVAvailable_NoErrCheck(h) == smokeTest(h, QSV)

checkQSVAvailable(h) ==
    LET r == listEncoders(h) IN
    IF r.err THEN FALSE
    ELSE IF QSV \notin r.output THEN FALSE
    ELSE smokeTest(h, QSV)

checkAMFAvailable(h) ==
    LET r == listEncoders(h) IN
    IF r.err THEN FALSE
    ELSE IF AMF \notin r.output THEN FALSE
    ELSE smokeTest(h, AMF)

checkMediaFoundationAvailable(h) ==
    LET r == listEncoders(h) IN
    IF r.err THEN FALSE
    ELSE IF MediaFoundation \notin r.output THEN FALSE
    ELSE smokeTest(h, MediaFoundation)

checkVAAPIAvailable(h) ==
    LET r == listEncoders(h) IN
    IF r.err THEN FALSE
    ELSE IF VAAPI \notin r.output THEN FALSE
    ELSE smokeTest(h, VAAPI)

\* no test encode: the listing alone decides
checkVideoToolboxAvailable(h) ==
    LET r == listEncoders(h) IN
    IF r.err THEN FALSE
    ELSE VideoToolbox \in r.output

ProbeNames == {"hasNVENC", "hasVideoToolbox", "hasQSV", "hasAMF",
               "hasMediaFoundation", "hasVAAPI"}

\* The six probes in the order getOptimalVideoSettings and
\* ShowEnvironmentInfo call them.
probeResults(h) ==
    [hasNVENC           |-> checkNVENCAvailable(h),
     hasVideoToolbox    |-> checkVideoToolboxAvailable(h),
     hasQSV             |-> checkQSVAvailable(h),
     hasAMF             |-> checkAMFAvailable(h),
     hasMediaFoundation |-> checkMediaFoundationAvailable(h),
     hasVAAPI           |-> checkVAAPIAvailable(h)]

\* ---- getOptimalVideoSettings -------------------------------------------
baseSettings ==
    <<"-pix_fmt", "yuv420p", "-movflags", "+faststart", "-r", "30",
      "-s", resolution4K>>

nvencFlags ==
    <<"-c:v", NVENC, "-preset", "slow", "-profile:v", "high",
      "-level", "5.1", "-rc:v", "vbr", "-cq:v", "21", "-b:v", "0",
      "-maxrate", "15M", "-bufsize", "30M">>
videoToolboxFlags ==
    <<"-c:v", VideoToolbox, "-profile:v", "high", "-level", "5.1",
      "-q:v", "21", "-realtime", "false", "-frames:v", "0", "-b:v", "10M",
      "-maxrate", "15M", "-bufsize", "30M">>
mediaFoundationFlags ==
    <<"-c:v", MediaFoundation, "-quality", "quality",
      "-rate_control", "quality", "-scenario", "display_remoting",
      "-profile:v", "high", "-level", "5.1", "-b:v", "12M",
      "-maxrate", "18M", "-bufsize", "36M">>
qsvFlags ==
    <<"-c:v", QSV, "-preset", "slower", "-profile:v", "high",
      "-level", "5.1", "-global_quality", "21", "-look_ahead", "1",
      "-maxrate", "12M", "-bufsize", "24M">>
amfFlags ==
    <<"-c:v", AMF, "-quality", "quality", "-rc", "cqp", "-qp_i", "21",
      "-qp_p", "21", "-qp_b", "21", "-profile:v", "high", "-level", "5.1",
      "-maxrate", "12M", "-bufsize", "24M">>
vaapiFlags ==
    <<"-c:v", VAAPI, "-profile:v", "high", "-level", "5.1", "-crf", "21",
      "-maxrate", "10M", "-bufsize", "20M">>
libx264Flags ==
    <<"-c:v", libx264, "-preset", "slow", "-profile:v", "high",
      "-level", "5.1", "-crf", "21">>

\* what the branch taken appends to settings (lines 346-436)
backendFlags(p) ==
    IF p.hasNVENC THEN nvencFlags
    ELSE IF p.hasVideoToolbox THEN videoToolboxFlags
    ELSE IF p.hasMediaFoundation THEN mediaFoundationFlags
    ELSE IF p.hasQSV THEN qsvFlags
    ELSE IF p.hasAMF THEN amfFlags
    ELSE IF p.hasVAAPI THEN vaapiFlags
    ELSE libx264Flags

\* the base settings, then the if / else-if chain on the six probe results
selectSettings_ProbeOrder(p) ==
    baseSettings \o
    (IF p.hasNVENC THEN nvencFlags
     ELSE IF p.hasVideoToolbox THEN videoToolboxFlags
     ELSE IF p.hasQSV THEN qsvFlags
     ELSE IF p.hasAMF THEN amfFlags
     ELSE IF p.hasMediaFoundation THEN mediaFoundationFlags
     ELSE IF p.hasVAAPI THEN vaapiFlags
     ELSE libx264Flags)

selectSettings_BackendFirst(p) == backendFlags(p) \o baseSettings

selectSettings(p) == baseSettings \o backendFlags(p)

\* getOptimalVideoSettings on host h: probes, then selects
getOptimalVideoSettings(h) == selectSettings(probeResults(h))

\* what getOptimalVideoSettings can return, over all hosts
HostSettings == {getOptimalVideoSettings(h) : h \in Hosts}

\* the value that follows "-c:v" in a flag list
CodecOf(flags) ==
    LET k == CHOOSE k \in 1..Len(flags) - 1 : flags[k] = "-c:v" IN flags[k + 1]

\* ---- the filter graph ---------------------------------------------------
\* Glob("converted/*.jpg") with n matches, in the lexical order Glob returns
FrameFile(k) == "converted/img" \o Itoa(k) \o "_uhd.jpg"
Frames(n) == [k \in 1..n |-> FrameFile(k)]

\* Glob("*.mp3") with n matches
MusicFile(k) == "track" \o Itoa(k) \o ".mp3"
Music(n) == [k \in 1..n |-> MusicFile(k)]

\* Results of FormatCameraInfoOverlay for a frame, "" when the frame gets no
\* overlay (no original found, no EXIF, or an empty text).
OverlayTexts == {"", "Canon EOS R5\\n50mm"}

\* a pad "[name]"
Pad(name) == "[" \o name \o "]"
StreamPad(k, type) == Pad(Itoa(k) \o ":" \o type)
VPad(k) == Pad("v" \o Itoa(k))
XPad(k) == Pad("x" \o Itoa(k))

\* getKenBurnsEffect: one zoompan filter over duration*30 frames at 4K.
\* The nine variants differ only in the constant pan offsets inside the x/y
\* expressions; the variant drawn by rand.Intn is not recorded.
getKenBurnsEffect(d) ==
    [f |-> "zoompan", d |-> d * KenBurnsFps, s |-> resolution4K]

fadeIn(fade) == [f |-> "fade", t |-> "in", st |-> 0, d |-> fade]

drawtext(text) ==
    [f |-> "drawtext", text |-> text, fontsize |-> 36, fontcolor |-> "white",
     x |-> "(w-tw)/2", y |-> "h-th-20", box |-> 1,
     boxcolor |-> "black@0.5", boxborderw |-> 5]

\* videoFilter of the image loop, before the overlay is chained
videoFilter_FadeInAll(idx, d, fade, kenBurns) ==
    IF kenBurns
    THEN [ins |-> <<StreamPad(idx, "v")>>,
          chain |-> <<getKenBurnsEffect(d), fadeIn(fade)>>]
    ELSE [ins |-> <<StreamPad(idx, "v")>>, chain |-> <<fadeIn(fade)>>]

videoFilter(idx, d, fade, kenBurns) ==
    IF kenBurns
    THEN IF idx = 0
         THEN [ins |-> <<StreamPad(0, "v")>>,
               chain |-> <<getKenBurnsEffect(d), fadeIn(fade)>>]
         ELSE [ins |-> <<StreamPad(idx, "v")>>,
               chain |-> <<getKenBurnsEffect(d)>>]
    ELSE IF idx = 0
         THEN [ins |-> <<StreamPad(0, "v")>>, chain |-> <<fadeIn(fade)>>]
         ELSE [ins |-> <<StreamPad(idx, "v")>>, chain |-> <<[f |-> "copy"]>>]

\* the node one image adds to filterComplex
imageNode(idx, d, fade, kenBurns, overlayText) ==
    LET vf == videoFilter(idx, d, fade, kenBurns) IN
    [ins   |-> vf.ins,
     chain |-> IF overlayText # "" THEN Append(vf.chain, drawtext(overlayText))
               ELSE vf.chain,
     out   |-> VPad(idx)]

\* inputs one image adds
imageInput(d, file) == <<"-loop", "1", "-t", Itoa(d), "-i", file>>

\* offset of the crossfade loop at loop variable i
xfadeOffset_OffByOne(i, d, fade) == i * (d - fade)

xfadeOffset_Constant(i, d, fade) == d - fade

xfadeOffset(i, d, fade) == (i + 1) * (d - fade)

\* the node one crossfade iteration adds
xfadeNode_RawInput(i, d, fade) ==
    [ins   |-> <<VPad(i), VPad(i + 1)>>,
     chain |-> <<[f |-> "xfade", transition |-> "fade", duration |-> fade,
                  offset |-> xfadeOffset(i, d, fade)]>>,
     out   |-> XPad(i + 1)]

xfadeNode_Swapped(i, d, fade) ==
    [ins   |-> IF i = 0 THEN <<VPad(i + 1), VPad(i)>>
               ELSE <<VPad(i + 1), XPad(i)>>,
     chain |-> <<[f |-> "xfade", transition |-> "fade", duration |-> fade,
                  offset |-> xfadeOffset(i, d, fade)]>>,
     out   |-> XPad(i + 1)]

xfadeNode(i, d, fade) ==
    [ins   |-> IF i = 0 THEN <<VPad(i), VPad(i + 1)>>
               ELSE <<XPad(i), VPad(i + 1)>>,
     chain |-> <<[f |-> "xfade", transition |-> "fade", duration |-> fade,
                  offset |-> xfadeOffset(i, d, fade)]>>,
     out   |-> XPad(i + 1)]

calcTotalDuration(idx, d, fade) == idx * d - (idx - 1) * fade

calcStartFadeOut(total, fade) == total - fade

fadeOutNode_LastImage(idx, start, fade) ==
    [ins   |-> <<VPad(idx - 1)>>,
     chain |-> <<[f |-> "fade", t |-> "out", st |-> start, d |-> fade]>>,
     out   |-> Pad("xf")]

fadeOutNode(idx, start, fade) ==
    [ins   |-> <<XPad(idx - 1)>>,
     chain |-> <<[f |-> "fade", t |-> "out", st |-> start, d |-> fade]>>,
     out   |-> Pad("xf")]

calcFinalLength_NoOverlap(totalFiles, d, fade) == totalFiles * d

calcFinalLength(totalFiles, d, fade) ==
    (totalFiles * d) - ((totalFiles - 1) * fade)

trimNode(len) ==
    [ins   |-> <<Pad("xf")>>,
     chain |-> <<[f |-> "trim", duration |-> len],
                 [f |-> "setpts", expr |-> "PTS-STARTPTS"]>>,
     out   |-> Pad("xfout")]

audioNode_FromTotal(idx, start, fade) ==
    [ins   |-> <<StreamPad(idx, "a")>>,
     chain |-> <<[f |-> "afade", t |-> "in", st |-> 0, d |-> AudioFadeIn],
                 [f |-> "afade", t |-> "out",
                  st |-> start + fade - AudioFadeOut, d |-> AudioFadeOut]>>,
     out   |-> Pad("musicout")]

audioNode_LastImageStream(idx, start, fade) ==
    [ins   |-> <<StreamPad(idx - 1, "a")>>,
     chain |-> <<[f |-> "afade", t |-> "in", st |-> 0, d |-> AudioFadeIn],
                 [f |-> "afade", t |-> "out", st |-> start - AudioFadeOut,
                  d |-> AudioFadeOut]>>,
     out   |-> Pad("musicout")]

audioNode(idx, start, fade) ==
    [ins   |-> <<StreamPad(idx, "a")>>,
     chain |-> <<[f |-> "afade", t |-> "in", st |-> 0, d |-> AudioFadeIn],
                 [f |-> "afade", t |-> "out", st |-> start - AudioFadeOut,
                  d |-> AudioFadeOut]>>,
     out   |-> Pad("musicout")]

\* ---- the argument vector ------------------------------------------------
outputPath == "video.mp4"

mapArgsFor_AlwaysAudio(audio) ==
    <<"-map", Pad("xfout"), "-map", Pad("musicout"), "-shortest", outputPath>>

mapArgsFor(audio) ==
    IF audio
    THEN <<"-map", Pad("xfout"), "-map", Pad("musicout"), "-shortest",
           outputPath>>
    ELSE <<"-map", Pad("xfout"), outputPath>>

audioCodecArgs(audio) ==
    IF audio THEN <<"-c:a", "aac", "-b:a", "192k">> ELSE <<>>

\* The -filter_complex argument is the graph string; it stands in the vector
\* as the printed form of the node sequence.
graphArg(graph) == ToString(graph)

buildArgs(ins, graph, maps, enc, audio, len) ==
    <<"-y">> \o ins \o <<"-filter_complex", graphArg(graph)>> \o maps
    \o enc \o audioCodecArgs(audio) \o <<"-t", Itoa(len)>>

\* len(files) checks before the image loop
tooFewFiles_OnlyEmpty(n) == n = 0

tooFewFiles(n) == n = 0 \/ n < 2

\* ---- main -> GenerateVideo ----------------------------------------------
NoSpawns == {}

NoProbes == [n \in ProbeNames |-> FALSE]

\* the -debug variables while a video run is modelled, and conversely
EnvIdle ==
    /\ host = "unobserved"
    /\ dpc = "idle"
    /\ has = NoProbes
    /\ shown = <<>>

\* ConvertImages is not running and the working directory is not looked at
ConvertIdle ==
    /\ cpc = "idle"
    /\ jpgFiles = <<>>
    /\ convertedDir = FALSE
    /\ convertedFiles = {}
    /\ ci = 0
    /\ convErr = ""
    /\ skipped = FALSE
    /\ convertCalls = 0

\* no file is standing in for "no file": GetOriginalFilename returns ""
NoFile == [base |-> "", readable |-> FALSE, stamp |-> ""]

\* the overlay step is not running
OverlayIdle ==
    /\ opc = "idle"
    /\ frameName = ""
    /\ originalFile = NoFile
    /\ cameraInfo = <<>>
    /\ clipOverlay = <<>>
    /\ drawn = <<>>

\* extractDuration is not running
ProbeIdle ==
    /\ ppc = "idle"
    /\ outputStr = <<>>
    /\ lineNo = 0
    /\ durationSec = 0

PureIdle == OverlayIdle /\ ProbeIdle

VideoIdle ==
    /\ pc = "idle"
    /\ duration = 0 /\ fadeDuration = 0
    /\ applyKenBurns = FALSE /\ exifOverlay = FALSE
    /\ files = <<>> /\ index = 0 /\ inputs = <<>> /\ filterComplex = <<>>
    /\ xi = 0 /\ totalDuration = 0 /\ startFadeOut = 0 /\ finalLength = 0
    /\ musicFiles = <<>> /\ hasAudio = FALSE /\ mapArgs = <<>> /\ args = <<>>
    /\ done = "none" /\ report = <<>> /\ fatal = "" /\ outFiles = {}
    /\ waitErr = "none" /\ encodes = 0 /\ spin = "none" /\ lateFrames = 0
    /\ closes = 0
    /\ videoInfo = <<>>

\* GenerateVideo(duration, fadeDuration, applyKenBurns, exifOverlay) is entered
Init ==
    /\ pc = "start"
    /\ duration \in 1..MaxD
    /\ fadeDuration \in 0..MaxF
    /\ applyKenBurns \in BOOLEAN
    /\ exifOverlay \in BOOLEAN
    /\ files = <<>> /\ index = 0 /\ inputs = <<>> /\ filterComplex = <<>>
    /\ xi = 0 /\ totalDuration = 0 /\ startFadeOut = 0 /\ finalLength = 0
    /\ musicFiles = <<>> /\ hasAudio = FALSE /\ mapArgs = <<>> /\ args = <<>>
    /\ done = "none" /\ report = <<>> /\ fatal = "" /\ outFiles = {}
    /\ waitErr = "none" /\ encodes = 0 /\ spin = "none" /\ lateFrames = 0
    /\ closes = 0
    /\ videoInfo = <<>>
    /\ settings = <<>>
    /\ spawned = NoSpawns
    /\ EnvIdle
    /\ calls = <<>>
    /\ ConvertIdle
    /\ PureIdle

\* lines 565-583: glob the frames, reject fewer than two, set up the loop
GlobFrames ==
    /\ pc = "start"
    /\ \E n \in 0..MaxN :
        /\ files' = Frames(n)
        /\ IF tooFewFiles(n)
           THEN /\ pc' = "fatal"
                /\ fatal' = IF n = 0 THEN "No converted images found"
                            ELSE "Not enough images found"
           ELSE /\ pc' = "images"
                /\ fatal' = fatal
    /\ index' = 0 /\ inputs' = <<>> /\ filterComplex' = <<>>
    /\ UNCHANGED <<duration, fadeDuration, applyKenBurns, exifOverlay, xi,
                   totalDuration, startFadeOut, finalLength, musicFiles,
                   hasAudio, mapArgs, args, done, report, outFiles, settings,
                   spawned, envVars, runVars, otherVars>>

\* lines 586-625: one iteration of the image loop
ProcessImage ==
    /\ pc = "images"
    /\ index < Len(files)
    /\ \E overlayText \in (IF exifOverlay THEN OverlayTexts ELSE {""}) :
        /\ inputs' = inputs \o imageInput(duration, files[index + 1])
        /\ filterComplex' =
              Append(filterComplex,
                     imageNode(index, duration, fadeDuration, applyKenBurns,
                               overlayText))
    /\ index' = index + 1
    /\ pc' = IF index + 1 < Len(files) THEN "images" ELSE "xfade"
    /\ xi' = 0
    /\ UNCHANGED <<duration, fadeDuration, applyKenBurns, exifOverlay, files,
                   totalDuration, startFadeOut, finalLength, musicFiles,
                   hasAudio, mapArgs, args, done, report, fatal, outFiles,
                   settings, spawned, envVars, runVars, otherVars>>

\* lines 630-638: one iteration of the crossfade loop
Crossfade ==
    /\ pc = "xfade"
    /\ xi < index - 1
    /\ filterComplex' =
          Append(filterComplex, xfadeNode(xi, duration, fadeDuration))
    /\ xi' = xi + 1
    /\ UNCHANGED <<pc, duration, fadeDuration, applyKenBurns, exifOverlay,
                   files, index, inputs, totalDuration, startFadeOut,
                   finalLength, musicFiles, hasAudio, mapArgs, args, done,
                   report, fatal, outFiles, settings, spawned, envVars,
                   otherVars, runVars>>

\* lines 640-647: the fade-out and the trim
FadeOutAndTrim ==
    /\ pc = "xfade"
    /\ ~(xi < index - 1)
    /\ LET total == calcTotalDuration(index, duration, fadeDuration)
           start == calcStartFadeOut(total, fadeDuration)
           len   == calcFinalLength(Len(files), duration, fadeDuration)
       IN /\ totalDuration' = total
          /\ startFadeOut' = start
          /\ finalLength' = len
          /\ filterComplex' =
                filterComplex \o <<fadeOutNode(index, start, fadeDuration),
                                   trimNode(len)>>
    /\ pc' = "music"
    /\ UNCHANGED <<duration, fadeDuration, applyKenBurns, exifOverlay, files,
                   index, inputs, xi, musicFiles, hasAudio, mapArgs, args,
                   done, report, fatal, outFiles, settings, spawned, envVars,
                   otherVars, runVars>>

\* lines 650-672: glob the music, add the audio input, node and maps
FindMusic ==
    /\ pc = "music"
    /\ \E m \in 0..MaxMusic :
        /\ musicFiles' = Music(m)
        /\ hasAudio' = (m > 0)
        /\ IF m > 0
           THEN /\ inputs' = inputs \o <<"-i", Music(m)[1]>>
                /\ filterComplex' =
                      Append(filterComplex,
                             audioNode(index, startFadeOut, fadeDuration))
           ELSE UNCHANGED <<inputs, filterComplex>>
        /\ mapArgs' = mapArgsFor(m > 0)
    /\ pc' = "args"
    /\ UNCHANGED <<duration, fadeDuration, applyKenBurns, exifOverlay, files,
                   index, xi, totalDuration, startFadeOut, finalLength, args,
                   done, report, fatal, outFiles, settings, spawned, envVars,
                   otherVars, runVars>>

\* lines 675-696: the argument vector, with the call of
\* getOptimalVideoSettings and its probes of the host
AssembleArgs ==
    /\ pc = "args"
    /\ settings' \in HostSettings
    /\ spawned' = spawned \cup {"probe"}
    /\ args' = buildArgs(inputs, filterComplex, mapArgs, settings', hasAudio,
                         finalLength)
    /\ pc' = "exec"
    /\ UNCHANGED <<duration, fadeDuration, applyKenBurns, exifOverlay, files,
                   index, inputs, filterComplex, xi, totalDuration,
                   startFadeOut, finalLength, musicFiles, hasAudio, mapArgs,
                   done, report, fatal, outFiles, envVars, runVars, otherVars>>

\* lines 699-732: open /dev/null, start ffmpeg, make the done channel and
\* start the spinner goroutine
StartEncode ==
    /\ pc = "exec"
    /\ \E r \in {"devnull failed", "start failed", "started"} :
        IF r = "started"
        THEN /\ spawned' = spawned \cup {"encode"}
             /\ encodes' = encodes + 1
             /\ done' = "open"
             /\ spin' = "select"
             /\ pc' = "wait"
             /\ fatal' = fatal
        ELSE /\ pc' = "fatal"
             /\ fatal' = IF r = "devnull failed"
                         THEN "Failed to open /dev/null"
                         ELSE "ffmpeg start failed"
             /\ UNCHANGED <<spawned, encodes, done, spin>>
    /\ UNCHANGED <<duration, fadeDuration, applyKenBurns, exifOverlay, files,
                   index, inputs, filterComplex, xi, totalDuration,
                   startFadeOut, finalLength, musicFiles, hasAudio, mapArgs,
                   args, report, outFiles, settings, envVars, otherVars,
                   waitErr, lateFrames, videoInfo, closes>>

\* lines 721-726: the spinner's select; the done case is taken once the
\* channel is closed, the default case otherwise
selectCase_AlwaysDefault(ch) == "default"

selectCase(ch) == IF ch = "closed" THEN "returned" ELSE "default"

SpinSelect ==
    /\ spin = "select"
    /\ spin' = selectCase(done)
    /\ UNCHANGED <<pc, duration, fadeDuration, applyKenBurns, exifOverlay,
                   files, index, inputs, filterComplex, xi, totalDuration,
                   startFadeOut, finalLength, musicFiles, hasAudio, mapArgs,
                   args, done, report, fatal, outFiles, settings, spawned,
                   envVars, otherVars, waitErr, encodes, lateFrames,
                   videoInfo, closes>>

\* lines 727-729: the default case prints one progress frame and sleeps
\* 200 ms; the frame counter i only picks the spinner character and is not
\* recorded
SpinFrame ==
    /\ spin = "default"
    /\ lateFrames' = IF done = "closed" THEN lateFrames + 1 ELSE lateFrames
    /\ spin' = "select"
    /\ UNCHANGED <<pc, duration, fadeDuration, applyKenBurns, exifOverlay,
                   files, index, inputs, filterComplex, xi, totalDuration,
                   startFadeOut, finalLength, musicFiles, hasAudio, mapArgs,
                   args, done, report, fatal, outFiles, settings, spawned,
                   envVars, otherVars, waitErr, encodes, videoInfo, closes>>

\* position of the main flow once cmd.Wait() has returned err and done is
\* closed (lines 734-738)
afterWait_NoFatal(err) == "report"

afterWait(err) == IF err = "failed" THEN "failing" ELSE "report"

\* close(done) executed once cmd.Wait() has returned err: line 735 when the
\* encode failed, line 738 otherwise
closesAfterWait_OnlyOnFailure(err) == IF err = "failed" THEN 1 ELSE 0

closesAfterWait(err) == 1

\* lines 734-738: cmd.Wait() returns, err is inspected and done is closed;
\* ffmpeg has written its output on a zero exit (what a failed encode leaves
\* behind is not recorded)
WaitEncode ==
    /\ pc = "wait"
    /\ \E exitZero \in BOOLEAN :
        /\ waitErr' = IF exitZero THEN "nil" ELSE "failed"
        /\ closes' = closes + closesAfterWait(waitErr')
        /\ done' = IF closes' > closes THEN "closed" ELSE done
        /\ pc' = afterWait(waitErr')
        /\ outFiles' = IF exitZero THEN outFiles \cup {outputPath}
                       ELSE outFiles
    /\ UNCHANGED <<duration, fadeDuration, applyKenBurns, exifOverlay, files,
                   index, inputs, filterComplex, xi, totalDuration,
                   startFadeOut, finalLength, musicFiles, hasAudio, mapArgs,
                   args, report, fatal, settings, spawned, envVars, otherVars,
                   encodes, spin, lateFrames, videoInfo>>

\* line 736: log.Fatalf ends the process, and the spinner with it
FatalExit ==
    /\ pc = "failing"
    /\ pc' = "fatal"
    /\ fatal' = "ffmpeg command failed"
    /\ spin' = IF spin = "returned" THEN "returned" ELSE "killed"
    /\ UNCHANGED <<duration, fadeDuration, applyKenBurns, exifOverlay, files,
                   index, inputs, filterComplex, xi, totalDuration,
                   startFadeOut, finalLength, musicFiles, hasAudio, mapArgs,
                   args, done, report, outFiles, settings, spawned, envVars,
                   otherVars, waitErr, encodes, lateFrames, videoInfo, closes>>

\* ---- getVideoDetails ----------------------------------------------------
\* What one run of ffprobe on video.mp4 gives: err, and on success the values
\* extractDuration, extractVideoInfo and extractAudioInfo read from its
\* output ("" or 0 for a field they do not find); size is what os.Stat
\* reports for the file, in MB.
FFProbeRuns ==
    {[err |-> TRUE, size |-> 42, duration |-> 0, bitrate |-> "",
      framerate |-> "", resolution |-> "", audio |-> ""],
     [err |-> FALSE, size |-> 42, duration |-> 13, bitrate |-> "9.8 Mbps",
      framerate |-> "30 fps", resolution |-> resolution4K,
      audio |-> "192 kbps"],
     [err |-> FALSE, size |-> 42, duration |-> 0, bitrate |-> "",
      framerate |-> "", resolution |-> "", audio |-> ""]}

orDefault(value, default) == IF value = "" THEN default ELSE value

getVideoDetails_NoDefaults(r) ==
    [err  |-> r.err,
     info |-> [FileSizeMB |-> r.size, DurationSec |-> r.duration,
               VideoBitrate |-> r.bitrate, AudioBitrate |-> r.audio,
               Framerate |-> r.framerate, Resolution |-> r.resolution]]

getVideoDetails(r) ==
    IF r.err
    THEN [err  |-> TRUE,
          info |-> [FileSizeMB |-> r.size, DurationSec |-> 0,
                    VideoBitrate |-> "", AudioBitrate |-> "No audio",
                    Framerate |-> "30 fps", Resolution |-> resolution4K]]
    ELSE [err  |-> FALSE,
          info |-> [FileSizeMB |-> r.size, DurationSec |-> r.duration,
                    VideoBitrate |-> r.bitrate,
                    AudioBitrate |-> orDefault(r.audio, "No audio"),
                    Framerate |-> orDefault(r.framerate, "30 fps"),
                    Resolution |-> orDefault(r.resolution, resolution4K)]]

successBanner == "=== Video generated successfully! ==="

\* the lines GenerateVideo prints after a zero exit (lines 741-760); os.Stat
\* on the file ffmpeg has just written succeeds
reportLines(details, len) ==
    <<successBanner, "File: " \o outputPath>> \o
    (IF ~details.err
     THEN <<"Resolution: " \o details.info.Resolution \o " (4K UHD)",
            "Duration: " \o Itoa(len) \o " sec. ("
                \o Itoa(details.info.DurationSec) \o "s actual)",
            "File Size: " \o Itoa(details.info.FileSizeMB) \o " MB",
            "Video Bitrate: " \o details.info.VideoBitrate,
            "Audio Bitrate: " \o details.info.AudioBitrate,
            "Framerate: " \o details.info.Framerate>>
     ELSE <<"Resolution: 4K UHD (" \o resolution4K \o ")",
            "Duration: " \o Itoa(len) \o " sec.",
            "File Size: " \o Itoa(details.info.FileSizeMB) \o " MB">>)

\* lines 741-760: the success banner, getVideoDetails (one ffprobe run) and
\* the details or the fallback lines
Report ==
    /\ pc = "report"
    /\ \E r \in FFProbeRuns :
        /\ videoInfo' = getVideoDetails(r)
        /\ report' = reportLines(videoInfo', finalLength)
    /\ spawned' = spawned \cup {"ffprobe"}
    /\ pc' = "done"
    /\ UNCHANGED <<duration, fadeDuration, applyKenBurns, exifOverlay, files,
                   index, inputs, filterComplex, xi, totalDuration,
                   startFadeOut, finalLength, musicFiles, hasAudio, mapArgs,
                   args, done, fatal, outFiles, settings, envVars, otherVars,
                   waitErr, encodes, spin, lateFrames, closes>>

Next ==
    \/ GlobFrames
    \/ ProcessImage
    \/ Crossfade
    \/ FadeOutAndTrim
    \/ FindMusic
    \/ AssembleArgs
    \/ StartEncode
    \/ SpinSelect
    \/ SpinFrame
    \/ WaitEncode
    \/ FatalExit
    \/ Report

Spec == Init /\ [][Next]_vars

\* The Go scheduler runs a runnable goroutine sooner or later: the spinner's
\* steps are weakly fair.
SpecFair == Spec /\ WF_vars(SpinSelect) /\ WF_vars(SpinFrame)

\* ---- main -debug -> ShowEnvironmentInfo ---------------------------------
InitEnv ==
    /\ host \in Hosts
    /\ dpc = "probe"
    /\ has = NoProbes
    /\ shown = <<>>
    /\ settings = <<>>
    /\ spawned = NoSpawns
    /\ VideoIdle
    /\ calls = <<>>
    /\ ConvertIdle
    /\ PureIdle

\* name printed under "Selected Encoder" (lines 489-513)
selectedEncoderName(p) ==
    IF p.hasNVENC THEN "NVIDIA NVENC (highest priority)"
    ELSE IF p.hasVideoToolbox THEN "Apple VideoToolbox"
    ELSE IF p.hasMediaFoundation THEN "Windows Media Foundation"
    ELSE IF p.hasQSV THEN "Intel Quick Sync Video"
    ELSE IF p.hasAMF THEN "AMD Advanced Media Framework"
    ELSE IF p.hasVAAPI THEN "Linux VAAPI"
    ELSE "CPU libx264 (software encoding)"

\* backend and bitrate line printed under "Encoding Strategy" (lines 525-550)
encodingStrategy(p) ==
    IF p.hasNVENC
    THEN <<"NVIDIA NVENC: CQ 21 (constant quality)",
           "Bitrate: Variable (up to 15 Mbps for 4K)">>
    ELSE IF p.hasMediaFoundation
    THEN <<"Media Foundation: Quality mode optimized for Snapdragon X",
           "Bitrate: 8 Mbps target (up to 12 Mbps max)">>
    ELSE IF p.hasQSV
    THEN <<"Intel QSV: Global quality 21 with look-ahead",
           "Bitrate: Variable (up to 12 Mbps for 4K)">>
    ELSE IF p.hasAMF
    THEN <<"AMD AMF: Constant QP mode (21 for all frame types)",
           "Bitrate: Variable (up to 12 Mbps for 4K)">>
    ELSE IF p.hasVAAPI
    THEN <<"Linux VAAPI: CRF 21 with hardware acceleration",
           "Bitrate: Variable (up to 10 Mbps for 4K)">>
    ELSE <<"CPU libx264: CRF 21 (software encoding)",
           "Quality: High (software optimized)">>

\* lines 459-464: the six probes
ShowProbe ==
    /\ dpc = "probe"
    /\ has' = probeResults(host)
    /\ spawned' = spawned \cup {"probe"}
    /\ dpc' = "selected"
    /\ UNCHANGED <<host, shown, settings, videoVars, otherVars>>

\* lines 466-513: what is available, which encoder is selected
ShowSelected ==
    /\ dpc = "selected"
    /\ shown' = shown \o <<{n \in ProbeNames : has[n]},
                           selectedEncoderName(has)>>
    /\ dpc' = "settings"
    /\ UNCHANGED <<host, has, settings, spawned, videoVars, otherVars>>

\* lines 516-522: getOptimalVideoSettings, probing the host again
ShowSettings ==
    /\ dpc = "settings"
    /\ settings' = getOptimalVideoSettings(host)
    /\ spawned' = spawned \cup {"probe"}
    /\ shown' = Append(shown, settings')
    /\ dpc' = "strategy"
    /\ UNCHANGED <<host, has, videoVars, otherVars>>

\* lines 525-556: the encoding strategy
ShowStrategy ==
    /\ dpc = "strategy"
    /\ shown' = Append(shown, encodingStrategy(has))
    /\ dpc' = "done"
    /\ UNCHANGED <<host, has, settings, spawned, videoVars, otherVars>>

NextEnv ==
    \/ ShowProbe
    \/ ShowSelected
    \/ ShowSettings
    \/ ShowStrategy

SpecEnv == InitEnv /\ [][NextEnv]_vars

\* ---- getOptimalVideoSettings, called repeatedly --------------------------
\* The function step by step, so that what one call leaves behind is there
\* when the next one starts: the probes (329-334), the local settings slice
\* (337-342), the branch that appends to it and the return (346-438).
MaxCalls == 2

\* the probe results a call can observe, over all hosts
ProbeOutcomes == {probeResults(h) : h \in Hosts}

\* lines 337-342: settings := []string{...} declares a new slice holding the
\* base settings, whatever an earlier call left in prev
newSettings_Carried(prev) == IF prev = <<>> THEN baseSettings ELSE prev

newSettings(prev) == baseSettings

InitCalls ==
    /\ dpc = "enter"
    /\ host = "unobserved"
    /\ has = NoProbes
    /\ shown = <<>>
    /\ settings = <<>>
    /\ spawned = NoSpawns
    /\ calls = <<>>
    /\ VideoIdle
    /\ ConvertIdle
    /\ PureIdle

\* lines 329-334: the six probes, on whatever host this call runs
CallProbe ==
    /\ dpc = "enter"
    /\ Len(calls) < MaxCalls
    /\ has' \in ProbeOutcomes
    /\ spawned' = spawned \cup {"probe"}
    /\ dpc' = "base"
    /\ UNCHANGED <<host, shown, settings, calls, videoVars, convVars,
                   pureVars>>

\* lines 337-342: the base settings
CallBase ==
    /\ dpc = "base"
    /\ settings' = newSettings(settings)
    /\ dpc' = "select"
    /\ UNCHANGED <<host, has, shown, spawned, calls, videoVars, convVars,
                   pureVars>>

\* lines 346-438: the branch appends the backend's flags; return settings
CallSelect ==
    /\ dpc = "select"
    /\ settings' = settings \o backendFlags(has)
    /\ calls' = Append(calls, [probes |-> has, settings |-> settings'])
    /\ dpc' = "enter"
    /\ UNCHANGED <<host, has, shown, spawned, videoVars, convVars,
                   pureVars>>

NextCalls ==
    \/ CallProbe
    \/ CallBase
    \/ CallSelect

SpecCalls == InitCalls /\ [][NextCalls]_vars

\* ---- main -> ConvertImages ----------------------------------------------
MaxConvertCalls == 2

\* EXIF DateTime values, formatted "20060102_150405"; "" stands for an image
\* whose EXIF cannot be decoded or has no DateTime
Stamps == {"", "20240101_120000"}

\* One *.jpg file of the working directory: its name without the extension,
\* whether imaging.Open can read it, and its EXIF timestamp.
SourceImage(k, readable, stamp) ==
    [base |-> "img" \o Itoa(k), readable |-> readable, stamp |-> stamp]

\* the working directories looked at: n files, in the order Glob lists them
WorkingDirs ==
    UNION {{[k \in 1..n |-> SourceImage(k, q[k][1], q[k][2])] :
               q \in [1..n -> BOOLEAN \X Stamps]} : n \in 0..MaxN}

\* lines 44-50: the two checks on fileCount; "nil" lets the call go on
countError_OnlyEmpty(fileCount) ==
    IF fileCount = 0 THEN "no .jpg files found in current directory"
    ELSE "nil"

countError(fileCount) ==
    IF fileCount = 0 THEN "no .jpg files found in current directory"
    ELSE IF fileCount < 2
    THEN "need at least 2 images to create a video, found only "
             \o Itoa(fileCount)
    ELSE "nil"

\* FetchImageTimestamp on a file that can be opened: the EXIF DateTime, or
\* the file name without its extension
FetchImageTimestamp(file) == IF file.stamp = "" THEN file.base ELSE file.stamp

\* line 95: the name of the converted file
filenameConverted(timestamp) == "converted/" \o timestamp \o "_uhd.jpg"

InitConvert ==
    /\ cpc = "call"
    /\ jpgFiles \in WorkingDirs
    /\ convertedDir \in BOOLEAN
    /\ convertedFiles = {}
    /\ ci = 0
    /\ convErr = ""
    /\ skipped = FALSE
    /\ convertCalls = 0
    /\ calls = <<>>
    /\ settings = <<>>
    /\ spawned = NoSpawns
    /\ EnvIdle
    /\ VideoIdle
    /\ PureIdle

\* lines 29-58: a call of ConvertImages up to the loop (the first call, or
\* the one of a later run of the program). Glob("*.jpg") returns an error
\* for a malformed pattern only.
ConvertStart ==
    /\ cpc \in {"call", "returned"}
    /\ convertCalls < MaxConvertCalls
    /\ convertCalls' = convertCalls + 1
    /\ ci' = 0
    /\ IF convertedDir
       THEN /\ skipped' = TRUE
            /\ convErr' = "nil"
            /\ cpc' = "returned"
            /\ UNCHANGED convertedDir
       ELSE /\ skipped' = FALSE
            /\ IF countError(Len(jpgFiles)) # "nil"
               THEN /\ convErr' = countError(Len(jpgFiles))
                    /\ cpc' = "returned"
                    /\ UNCHANGED convertedDir
               ELSE \E mkdirOK \in BOOLEAN :
                       IF mkdirOK
                       THEN /\ convertedDir' = TRUE
                            /\ convErr' = ""
                            /\ cpc' = "loop"
                       ELSE /\ convertedDir' = FALSE
                            /\ convErr' = "failed to create directory"
                            /\ cpc' = "returned"
    /\ UNCHANGED <<jpgFiles, convertedFiles, calls, settings, spawned,
                   envVars, videoVars,
                   pureVars>>

\* lines 62-106: one iteration of the conversion loop, and the return after
\* the last one
ConvertOne ==
    /\ cpc = "loop"
    /\ LET file == jpgFiles[ci + 1] IN
       IF ~file.readable
       THEN /\ convErr' = "failed to open image " \o file.base \o ".jpg"
            /\ cpc' = "returned"
            /\ UNCHANGED <<convertedFiles, ci>>
       ELSE \E saveOK \in BOOLEAN :
               LET out == filenameConverted(FetchImageTimestamp(file)) IN
               IF saveOK
               THEN /\ convertedFiles' = convertedFiles \cup {out}
                    /\ ci' = ci + 1
                    /\ cpc' = IF ci + 1 < Len(jpgFiles) THEN "loop"
                              ELSE "returned"
                    /\ convErr' = IF ci + 1 < Len(jpgFiles) THEN ""
                                  ELSE "nil"
               ELSE /\ convErr' = "failed to save converted image " \o out
                    /\ cpc' = "returned"
                    /\ UNCHANGED <<convertedFiles, ci>>
    /\ UNCHANGED <<jpgFiles, convertedDir, skipped, convertCalls, calls,
                   settings, spawned, envVars, videoVars,
                   pureVars>>

NextConvert ==
    \/ ConvertStart
    \/ ConvertOne

SpecConvert == InitConvert /\ [][NextConvert]_vars

\* ---- GenerateVideo: the EXIF overlay of one clip (lines 610-621) ---------
\* Text is a sequence of characters, so that what a character does to the
\* filter string can be told.
MaxText == 2

\* characters of EXIF text: "a" for one with no meaning in the filter syntax
Chars == {"a", "'", ":"}

Texts == UNION {[1..n -> Chars] : n \in 0..MaxText}

\* timestamp of a frame converted in an earlier run whose source image is no
\* longer in the working directory
GoneStamp == "20231231_235959"

\* timestamps in the names of the frames of the converted directory
FrameStamps ==
    (Stamps \ {""}) \cup {GoneStamp} \cup {"img" \o Itoa(k) : k \in 1..MaxN}

\* lines 253-254: the timestamp part of a converted file's name
timestampOf(convertedFile) ==
    CHOOSE t \in FrameStamps : filenameConverted(t) = convertedFile

\* GetOriginalFilename, lines 257-290: the first file of the working
\* directory whose timestamp can be fetched and equals the frame's, else the
\* first file of the working directory, else "". Glob("*.jpg") lists no path
\* that contains "converted/".
GetOriginalFilename(convertedFile, jpgs) ==
    LET timestamp == timestampOf(convertedFile)
        matching  == {k \in 1..Len(jpgs) :
                        /\ jpgs[k].readable
                        /\ FetchImageTimestamp(jpgs[k]) = timestamp}
    IN IF matching # {}
       THEN jpgs[CHOOSE k \in matching : \A j \in matching : k <= j]
       ELSE IF Len(jpgs) > 0 THEN jpgs[1]
       ELSE NoFile

\* the second line of the overlay: none of the settings, or all four as
\* ExtractCameraInfo formats them (lines 166-201)
TechSettings ==
    {[FocalLength |-> <<>>, FNumber |-> <<>>, ExposureTime |-> <<>>,
      ISO |-> <<>>],
     [FocalLength |-> <<"50mm">>, FNumber |-> <<"f/2.8">>,
      ExposureTime |-> <<"1/125s">>, ISO |-> <<"ISO 400">>]}

\* what ExtractCameraInfo can return for a file it can open: Make, Model and
\* LensModel are the EXIF strings as they are, trimmed of outer white space
CameraInfos ==
    {[Make |-> mk, Model |-> md, LensModel |-> ln,
      FocalLength |-> t.FocalLength, FNumber |-> t.FNumber,
      ExposureTime |-> t.ExposureTime, ISO |-> t.ISO] :
        mk \in {<<>>, <<"a">>}, md \in Texts, ln \in {<<>>, <<"a">>},
        t \in TechSettings}

\* strings.Join
RECURSIVE Join(_, _)
Join(parts, sep) ==
    IF parts = <<>> THEN <<>>
    ELSE IF Len(parts) = 1 THEN parts[1]
    ELSE parts[1] \o sep \o Join(Tail(parts), sep)

\* FormatCameraInfoOverlay, lines 207-246; " * " stands for the separator
\* of the settings, a bullet (U+2022) between two spaces
FormatCameraInfoOverlay(info) ==
    LET camera == IF info.Make # <<>> /\ info.Model # <<>>
                  THEN <<info.Make \o <<" ">> \o info.Model>>
                  ELSE IF info.Model # <<>> THEN <<info.Model>>
                  ELSE <<>>
        lens   == IF info.LensModel # <<>> THEN <<info.LensModel>> ELSE <<>>
        techSettings ==
            SelectSeq(<<info.FocalLength, info.FNumber, info.ExposureTime,
                        info.ISO>>, LAMBDA x : x # <<>>)
        tech   == IF techSettings # <<>>
                  THEN <<Join(techSettings, <<" * ">>)>>
                  ELSE <<>>
    IN Join(camera \o lens \o tech, <<"\\", "n">>)

\* line 617: the text goes between the two quotes as it is
drawtextFilter(text) ==
    <<",drawtext=text=", "'">> \o text \o
    <<"'", ":fontsize=36:fontcolor=white:x=(w-tw)/2:y=h-th-20:box=1",
      ":boxcolor=black@0.5:boxborderw=5">>

InitOverlay ==
    /\ opc = "lookup"
    /\ frameName \in {filenameConverted(t) : t \in FrameStamps}
    /\ jpgFiles \in WorkingDirs
    /\ convertedDir = TRUE
    /\ convertedFiles = {frameName}
    /\ cpc = "idle" /\ ci = 0 /\ convErr = "" /\ skipped = FALSE
    /\ convertCalls = 0
    /\ originalFile = NoFile
    /\ cameraInfo = <<>>
    /\ clipOverlay = <<>>
    /\ drawn = <<>>
    /\ ProbeIdle
    /\ calls = <<>>
    /\ settings = <<>>
    /\ spawned = NoSpawns
    /\ EnvIdle
    /\ VideoIdle

\* lines 611-612
OverlayLookup ==
    /\ opc = "lookup"
    /\ originalFile' = GetOriginalFilename(frameName, jpgFiles)
    /\ opc' = IF originalFile' # NoFile THEN "extract" ELSE "attached"
    /\ UNCHANGED <<frameName, cameraInfo, clipOverlay, drawn, probeVars,
                   convVars, calls, settings, spawned, envVars, videoVars>>

\* line 613: ExtractCameraInfo returns an error for a file it cannot open
OverlayExtract ==
    /\ opc = "extract"
    /\ IF originalFile.readable
       THEN /\ cameraInfo' \in CameraInfos
            /\ opc' = "format"
       ELSE /\ cameraInfo' = cameraInfo
            /\ opc' = "attached"
    /\ UNCHANGED <<frameName, originalFile, clipOverlay, drawn, probeVars,
                   convVars, calls, settings, spawned, envVars, videoVars>>

\* line 614
OverlayFormat ==
    /\ opc = "format"
    /\ clipOverlay' = FormatCameraInfoOverlay(cameraInfo)
    /\ opc' = "attach"
    /\ UNCHANGED <<frameName, originalFile, cameraInfo, drawn, probeVars,
                   convVars, calls, settings, spawned, envVars, videoVars>>

\* lines 615-618
OverlayAttach ==
    /\ opc = "attach"
    /\ drawn' = IF clipOverlay # <<>> THEN drawtextFilter(clipOverlay)
                ELSE <<>>
    /\ opc' = "attached"
    /\ UNCHANGED <<frameName, originalFile, cameraInfo, clipOverlay,
                   probeVars, convVars, calls, settings, spawned, envVars,
                   videoVars>>

NextOverlay ==
    \/ OverlayLookup
    \/ OverlayExtract
    \/ OverlayFormat
    \/ OverlayAttach

SpecOverlay == InitOverlay /\ [][NextOverlay]_vars

\* ---- getVideoDetails -> extractDuration (lines 88-107) -------------------
\* The output of `ffprobe -print_format json -show_format -show_streams` is
\* kept as the code reads it: a sequence of lines, each line being what
\* strings.Split(line, `"`) returns, so that the text inside a pair of quotes
\* is every second part.

\* one JSON member with a string value, and one that opens an object or array
strField(key, value) == <<key, ":", value, ",">>
objField(key) == <<key, ":{">>

\* the members of the output in the order ffprobe writes them: the streams
\* with their optional duration, then the format section with its optional
\* duration; "" stands for a member that is absent
probeFields(vdur, audio, adur, fdur) ==
    <<objField("streams"), strField("codec_type", "video")>>
    \o (IF vdur # "" THEN <<strField("duration", vdur)>> ELSE <<>>)
    \o (IF audio THEN <<strField("codec_type", "audio")>> ELSE <<>>)
    \o (IF audio /\ adur # "" THEN <<strField("duration", adur)>> ELSE <<>>)
    \o <<objField("format"), strField("filename", "video.mp4")>>
    \o (IF fdur # "" THEN <<strField("duration", fdur)>> ELSE <<>>)

RECURSIVE Concat(_)
Concat(seqs) == IF seqs = <<>> THEN <<>> ELSE Head(seqs) \o Concat(Tail(seqs))

\* one member per line, as ffprobe prints JSON, or the whole document on one
\* line
probeLines(fields, onePerLine) ==
    IF onePerLine
    THEN <<<<"{">>>> \o [k \in 1..Len(fields) |-> <<"  ">> \o fields[k]]
    ELSE <<<<"{">> \o Concat(fields)>>

StreamDurations == {"", "12.000000"}
FormatDurations == {"", "13.000000", "N/A"}

ProbeOutputs ==
    {probeLines(probeFields(vdur, audio, adur, fdur), onePerLine) :
        vdur \in StreamDurations, audio \in BOOLEAN, adur \in StreamDurations,
        fdur \in FormatDurations, onePerLine \in BOOLEAN}

\* strconv.ParseFloat on the values above
ParseFloat(str) ==
    CASE str = "13.000000" -> [err |-> FALSE, value |-> 13]
      [] str = "12.000000" -> [err |-> FALSE, value |-> 12]
      [] OTHER -> [err |-> TRUE, value |-> 0]

\* strings.Contains(line, `"word"`): a part between two quotes is the word
containsQuoted(parts, word) ==
    \E k \in 2..Len(parts) - 1 : parts[k] = word

\* lines 96-103: the parts of the line that are "duration", have a part two
\* further on, and whose part two further on parses as a number
durationParts(parts) ==
    {k \in 1..Len(parts) - 2 :
        parts[k] = "duration" /\ ~ParseFloat(parts[k + 2]).err}

InitProbe ==
    /\ ppc = "start"
    /\ outputStr \in ProbeOutputs
    /\ lineNo = 0
    /\ durationSec = 0
    /\ OverlayIdle
    /\ ConvertIdle
    /\ calls = <<>>
    /\ settings = <<>>
    /\ spawned = NoSpawns
    /\ EnvIdle
    /\ VideoIdle

\* lines 89-93
ExtractStart ==
    /\ ppc = "start"
    /\ IF \E n \in 1..Len(outputStr) : containsQuoted(outputStr[n], "duration")
       THEN /\ ppc' = "lines"
            /\ lineNo' = 1
       ELSE /\ ppc' = "returned"
            /\ lineNo' = lineNo
    /\ durationSec' = 0
    /\ UNCHANGED <<outputStr, ovVars, convVars, calls, settings, spawned,
                   envVars, videoVars>>

\* lines 94-105: one line of the loop
ExtractLine ==
    /\ ppc = "lines"
    /\ lineNo <= Len(outputStr)
    /\ LET line == outputStr[lineNo]
           hits == IF /\ containsQuoted(line, "duration")
                      /\ containsQuoted(line, "format")
                   THEN durationParts(line)
                   ELSE {}
       IN IF hits # {}
          THEN /\ durationSec' =
                    ParseFloat(line[(CHOOSE k \in hits :
                                        \A j \in hits : k <= j) + 2]).value
               /\ ppc' = "returned"
               /\ lineNo' = lineNo
          ELSE /\ durationSec' = durationSec
               /\ ppc' = IF lineNo < Len(outputStr) THEN "lines"
                         ELSE "returned"
               /\ lineNo' = lineNo + 1
    /\ UNCHANGED <<outputStr, ovVars, convVars, calls, settings, spawned,
                   envVars, videoVars>>

NextProbe ==
    \/ ExtractStart
    \/ ExtractLine

SpecProbe == InitProbe /\ [][NextProbe]_vars

\* ---- reading the graph and the argument vector --------------------------
\* the run has passed the crossfade loop, the fade-out and the trim
ChainBuilt == pc \in {"music", "args", "exec", "wait", "failing", "report",
                     "done"}
              \/ (pc = "fatal" /\ args # <<>>)

\* the run has passed the music glob
GraphBuilt == pc \in {"args", "exec", "wait", "failing", "report", "done"}
              \/ (pc = "fatal" /\ args # <<>>)

\* the argument vector has been assembled
ArgsBuilt == args # <<>>

NodesWith(graph, name) ==
    SelectSeq(graph, LAMBDA n : \E k \in 1..Len(n.chain) : n.chain[k].f = name)

NodeProducing(graph, pad) == CHOOSE k \in 1..Len(graph) : graph[k].out = pad

XfadeOffsets(graph) ==
    LET xs == NodesWith(graph, "xfade")
    IN [k \in 1..Len(xs) |-> xs[k].chain[1].offset]

HasAdjacent(s, a, b) == \E k \in 1..Len(s) - 1 : s[k] = a /\ s[k + 1] = b

\* ---- C1 -----------------------------------------------------------------
\* C1: the k-th crossfade node of the graph (k = 1..N-1) has duration F and
\* offset k*(D-F); once the chain is built there are N-1 of them, and for
\* N=3, D=5, F=1 the offsets are [4, 8].
C1_CrossfadeOffsets ==
    LET xs == NodesWith(filterComplex, "xfade") IN
    /\ \A k \in 1..Len(xs) :
          /\ xs[k].chain[1].duration = fadeDuration
          /\ xs[k].chain[1].offset = k * (duration - fadeDuration)
    /\ ChainBuilt => Len(xs) = Len(files) - 1
    /\ (ChainBuilt /\ Len(files) = 3 /\ duration = 5 /\ fadeDuration = 1)
          => XfadeOffsets(filterComplex) = <<4, 8>>

C1_Witness ==
    /\ pc = "done"
    /\ Len(files) = 3 /\ duration = 5 /\ fadeDuration = 1
    /\ XfadeOffsets(filterComplex) = <<4, 8>>

\* ---- C2 -----------------------------------------------------------------
TrimDuration(graph) == graph[NodeProducing(graph, Pad("xfout"))].chain[1].duration
FadeOutStart(graph) == graph[NodeProducing(graph, Pad("xf"))].chain[1].st
ExpectedTotal == Len(files) * duration - (Len(files) - 1) * fadeDuration

IsTrimNode(n) == n.chain[1].f = "trim" /\ n.out = Pad("xfout")

\* C2 as stated: the trim duration and the trailing -t value are both
\* N*D-(N-1)*F, the total the fade-out start is computed from, and the graph
\* always ends with the trim node.
C2_GraphEndsWithTrim ==
    /\ ChainBuilt =>
          /\ TrimDuration(filterComplex) = ExpectedTotal
          /\ FadeOutStart(filterComplex) + fadeDuration = ExpectedTotal
          /\ IsTrimNode(filterComplex[Len(filterComplex)])
    /\ ArgsBuilt =>
          /\ args[Len(args) - 1] = "-t"
          /\ args[Len(args)] = Itoa(ExpectedTotal)

\* C2 amended: the trim duration and the trailing -t value are both
\* N*D-(N-1)*F, the total the fade-out start is computed from; the trim node
\* is the last node of the video chain: it ends the graph when no mp3 was
\* found and is followed by the audio fade node, and nothing else, otherwise.
C2_TrimAndForcedDuration ==
    /\ ChainBuilt =>
          /\ TrimDuration(filterComplex) = ExpectedTotal
          /\ FadeOutStart(filterComplex) + fadeDuration = ExpectedTotal
          /\ LET last == Len(filterComplex)
                 trim == NodeProducing(filterComplex, Pad("xfout"))
             IN /\ IsTrimNode(filterComplex[trim])
                /\ IF hasAudio
                   THEN /\ trim = last - 1
                        /\ filterComplex[last].out = Pad("musicout")
                   ELSE trim = last
    /\ ArgsBuilt =>
          /\ args[Len(args) - 1] = "-t"
          /\ args[Len(args)] = Itoa(ExpectedTotal)

C2_Witness ==
    /\ pc = "done" /\ hasAudio
    /\ Len(files) = 3 /\ duration = 5 /\ fadeDuration = 1
    /\ TrimDuration(filterComplex) = 13
    /\ args[Len(args)] = "13"

\* ---- C3 -----------------------------------------------------------------
IsStreamPad(pad) ==
    \E k \in 0..Len(files), type \in {"v", "a"} : pad = StreamPad(k, type)

\* places where a pad is consumed: input pads of nodes and -map values
GraphUses(graph, pad) ==
    {<<k, j>> \in (1..Len(graph)) \X (1..2) :
        j <= Len(graph[k].ins) /\ graph[k].ins[j] = pad}
MapUses(argv, pad) ==
    {k \in 2..Len(argv) : argv[k - 1] = "-map" /\ argv[k] = pad}

ExpectedLabels ==
    {VPad(k) : k \in 0..Len(files) - 1} \cup {XPad(k) : k \in 1..Len(files) - 1}
    \cup {Pad("xf"), Pad("xfout")}
    \cup (IF hasAudio THEN {Pad("musicout")} ELSE {})

\* C3: every label of the graph is produced by exactly one node, consumed at
\* most once (by a node or a -map), and every label a node or a -map consumes
\* is produced by a node that stands earlier in the graph; the finished graph
\* produces exactly v0..v(N-1), x1..x(N-1), xf, xfout and, with audio,
\* musicout.
C3_LabelsThreaded ==
    LET g == filterComplex IN
    /\ \A a, b \in 1..Len(g) : g[a].out = g[b].out => a = b
    /\ \A k \in 1..Len(g) :
          /\ ~IsStreamPad(g[k].out)
          /\ Cardinality(GraphUses(g, g[k].out))
               + Cardinality(MapUses(args, g[k].out)) <= 1
          /\ \A j \in 1..Len(g[k].ins) :
                \/ IsStreamPad(g[k].ins[j])
                \/ \E m \in 1..k - 1 : g[m].out = g[k].ins[j]
    /\ \A k \in 2..Len(args) :
          args[k - 1] = "-map" => \E m \in 1..Len(g) : g[m].out = args[k]
    /\ GraphBuilt => {g[k].out : k \in 1..Len(g)} = ExpectedLabels

C3_Witness ==
    /\ pc = "done" /\ hasAudio /\ Len(files) = 3
    /\ \E k \in 1..Len(filterComplex) :
          \E j \in 1..Len(filterComplex[k].chain) :
              filterComplex[k].chain[j].f = "drawtext"
    /\ Cardinality(GraphUses(filterComplex, XPad(1))) = 1
    /\ Cardinality(MapUses(args, Pad("musicout"))) = 1

\* ---- C4 -----------------------------------------------------------------
\* the order stated by the comment on the selection chain and by the README
PriorityOrder ==
    <<NVENC, VideoToolbox, MediaFoundation, QSV, AMF, VAAPI, libx264>>
Rank(codec) == CHOOSE k \in 1..Len(PriorityOrder) : PriorityOrder[k] = codec

ProbeCodec ==
    [hasNVENC |-> NVENC, hasVideoToolbox |-> VideoToolbox, hasQSV |-> QSV,
     hasAMF |-> AMF, hasMediaFoundation |-> MediaFoundation,
     hasVAAPI |-> VAAPI]

\* getOptimalVideoSettings has returned in ShowEnvironmentInfo
SettingsShown == dpc \in {"strategy", "done"}

\* C4: the codec getOptimalVideoSettings selects is libx264 or a backend whose
\* probe returned true, it never ranks below a backend whose probe returned
\* true, and turning one more probe to true never moves the selection to a
\* lower-ranked backend.
C4_PriorityOrder ==
    SettingsShown =>
        LET p   == probeResults(host)
            sel == CodecOf(settings)
        IN /\ sel = libx264 \/ \E n \in ProbeNames : p[n] /\ ProbeCodec[n] = sel
           /\ \A n \in ProbeNames : p[n] => Rank(sel) <= Rank(ProbeCodec[n])
           /\ \A n \in ProbeNames :
                 Rank(CodecOf(selectSettings([p EXCEPT ![n] = TRUE])))
                     <= Rank(sel)

C4_Witness ==
    /\ dpc = "done"
    /\ has.hasQSV /\ has.hasMediaFoundation /\ has.hasVAAPI
    /\ ~has.hasNVENC /\ ~has.hasVideoToolbox
    /\ CodecOf(settings) = MediaFoundation

\* ---- C5 -----------------------------------------------------------------
\* C5: a hardware encoder that is in the encoder listing but whose test
\* encode exits non-zero is treated as unavailable and is never selected, for
\* each of the six hardware backends.
C5_ListedButBrokenNeverSelected ==
    SettingsShown =>
        \A n \in ProbeNames :
            (host.encodersOK /\ ProbeCodec[n] \in host.listed
                /\ ProbeCodec[n] \notin host.working)
            => /\ ~has[n]
               /\ CodecOf(settings) # ProbeCodec[n]

\* ---- C6 -----------------------------------------------------------------
streamMaps(audio) ==
    IF audio THEN <<"-map", Pad("xfout"), "-map", Pad("musicout"), "-shortest">>
    ELSE <<"-map", Pad("xfout")>>

\* C6: the argument vector is -y, the inputs, -filter_complex and the graph,
\* the stream maps, the encoder profile flags, the audio-codec flags (only
\* with audio), -t and the forced duration, and the output path as its last
\* element.
C6_OutputPathLast ==
    ArgsBuilt =>
        /\ args = <<"-y">> \o inputs
                  \o <<"-filter_complex", graphArg(filterComplex)>>
                  \o streamMaps(hasAudio) \o settings
                  \o audioCodecArgs(hasAudio)
                  \o <<"-t", Itoa(finalLength)>> \o <<outputPath>>
        /\ args[Len(args)] = outputPath

\* ---- C7 -----------------------------------------------------------------
\* C7: with 0 or 1 frame files the run stops in a fatal error with a message,
\* and no subprocess of any kind has been started, no argument vector built
\* and no file written.
C7_TooFewFramesNoSubprocess ==
    (pc # "start" /\ Len(files) < 2) =>
        /\ pc = "fatal"
        /\ fatal # ""
        /\ spawned = {}
        /\ args = <<>>
        /\ outFiles = {}

C7_Witness ==
    /\ pc = "fatal" /\ Len(files) = 1
    /\ fatal = "Not enough images found"
    /\ spawned = {}

\* ---- C8 -----------------------------------------------------------------
\* C8: on a host where the encoder listing fails, every availability check
\* returns false, ShowEnvironmentInfo goes on to its end, and
\* getOptimalVideoSettings returns the libx264 profile.
C8_ListingFailureFallsBack ==
    (dpc # "idle" /\ ~host.encodersOK) =>
        /\ dpc # "probe" => \A n \in ProbeNames : ~has[n]
        /\ \A n \in ProbeNames : ~probeResults(host)[n]
        /\ dpc # "done" => ENABLED NextEnv
        /\ SettingsShown => settings = baseSettings \o libx264Flags
        /\ fatal = ""

C8_Witness ==
    /\ dpc = "done"
    /\ ~host.encodersOK
    /\ host.working = HwCodecs
    /\ CodecOf(settings) = libx264

\* ---- C9 -----------------------------------------------------------------
AudioNodes(graph) ==
    SelectSeq(graph,
              LAMBDA n : \/ n.out = Pad("musicout")
                         \/ \E k \in 1..Len(n.chain) : n.chain[k].f = "afade"
                         \/ \E j \in 1..Len(n.ins), k \in 0..Len(files) :
                               n.ins[j] = StreamPad(k, "a"))

\* C9: the argument vector has the [musicout] map, -shortest, -c:a aac and
\* -b:a 192k exactly when the mp3 glob found a file; the [xfout] map is there
\* in both cases, and with no mp3 the graph passed has no audio node.
C9_AudioArgsIffMusic ==
    ArgsBuilt =>
        LET found == Len(musicFiles) > 0 IN
        /\ HasAdjacent(args, "-map", Pad("musicout")) <=> found
        /\ ("-shortest" \in Range(args)) <=> found
        /\ HasAdjacent(args, "-c:a", "aac") <=> found
        /\ HasAdjacent(args, "-b:a", "192k") <=> found
        /\ HasAdjacent(args, "-map", Pad("xfout"))
        /\ HasAdjacent(args, "-filter_complex", graphArg(filterComplex))
        /\ ~found => AudioNodes(filterComplex) = <<>>
        /\ found => Len(AudioNodes(filterComplex)) = 1

C9_Witness ==
    /\ pc = "done"
    /\ Len(musicFiles) = 0
    /\ HasAdjacent(args, "-map", Pad("xfout"))
    /\ "-shortest" \notin Range(args)

\* ---- C10 ----------------------------------------------------------------
AudioFade(graph) == graph[NodeProducing(graph, Pad("musicout"))].chain[2]

\* C10: with audio, the audio fade-out starts 4 seconds before the start of
\* the video fade-out and lasts 4 seconds, so it ends no later than the video
\* fade-out starts and no later than the trimmed video ends.
C10_AudioFadeOutBeforeVideoFade ==
    (GraphBuilt /\ hasAudio) =>
        LET a == AudioFade(filterComplex) IN
        /\ a.f = "afade" /\ a.t = "out"
        /\ a.st = FadeOutStart(filterComplex) - 4
        /\ a.st = startFadeOut - 4
        /\ a.d = 4
        /\ a.st + a.d <= FadeOutStart(filterComplex)
        /\ a.st + a.d <= TrimDuration(filterComplex)

C10_Witness ==
    /\ pc = "done" /\ hasAudio
    /\ Len(files) = 3 /\ duration = 5 /\ fadeDuration = 1
    /\ FadeOutStart(filterComplex) = 12
    /\ AudioFade(filterComplex).st = 8
\* ---- C11 ----------------------------------------------------------------
EncodeFailed == waitErr = "failed"

ProbeFailed == pc = "done" /\ videoInfo.err

\* C12: when ffprobe fails after an encode that exited zero, the run still
\* ends as a success (no fatal error, the success banner is printed) and the
\* technical fields are the static defaults: 30 fps, 3840x2160, "No audio".
C12_ProbeFailureKeepsSuccess ==
    ProbeFailed =>
        /\ waitErr = "nil"
        /\ fatal = ""
        /\ report[1] = "=== Video generated successfully! ==="
        /\ videoInfo.info.Framerate = "30 fps"
        /\ videoInfo.info.Resolution = "3840x2160"
        /\ videoInfo.info.AudioBitrate = "No audio"
        /\ \E k \in 1..Len(report) :
               report[k] = "Resolution: 4K UHD (3840x2160)"

C12_Witness ==
    /\ ProbeFailed
    /\ "ffprobe" \in spawned
    /\ outputPath \in outFiles
    /\ Len(report) = 5

\* ---- C13 ----------------------------------------------------------------
ResultRead == waitErr # "none"

\* C13: the spinner has stopped before the main flow reads the encode's
\* result: whenever the main flow has inspected the error of cmd.Wait() or
\* has printed the report, the spinner goroutine has already returned.
C13_SpinnerStoppedBeforeResultRead ==
    (ResultRead \/ report # <<>>) => spin = "returned"


\* ---- C14 ----------------------------------------------------------------
IsFadeOut(n) ==
    \E k \in 1..Len(n.chain) : n.chain[k].f = "fade" /\ n.chain[k].t = "out"

FadeOutNodes(graph) == SelectSeq(graph, IsFadeOut)

Consumers(graph, pad) ==
    {k \in 1..Len(graph) : \E j \in 1..Len(graph[k].ins) : graph[k].ins[j] = pad}

\* C14: the graph never has more than one fade-out node; once the chain is
\* built it has exactly one, applied to the final crossfade output [x(N-1)],
\* with start (N*D-(N-1)*F)-F and duration F (start 12 for N=3, D=5, F=1),
\* and its output is consumed by the trim node and by nothing else.
C14_SingleFadeOut ==
    LET fo == FadeOutNodes(filterComplex)
        N  == Len(files)
    IN /\ Len(fo) <= 1
       /\ ChainBuilt =>
            /\ Len(fo) = 1
            /\ fo[1].ins = <<"[x" \o Itoa(N - 1) \o "]">>
            /\ fo[1].chain =
                 <<[f |-> "fade", t |-> "out",
                    st |-> (N * duration - (N - 1) * fadeDuration)
                           - fadeDuration,
                    d |-> fadeDuration]>>
            /\ \E k \in 1..Len(filterComplex) :
                 /\ Consumers(filterComplex, fo[1].out) = {k}
                 /\ filterComplex[k].ins = <<fo[1].out>>
                 /\ filterComplex[k].chain[1].f = "trim"
            /\ (N = 3 /\ duration = 5 /\ fadeDuration = 1)
                 => fo[1].chain[1].st = 12

C14_Witness ==
    /\ pc = "music"
    /\ Len(files) = 3 /\ duration = 5 /\ fadeDuration = 1
    /\ Len(FadeOutNodes(filterComplex)) = 1
    /\ FadeOutNodes(filterComplex)[1].ins = <<"[x2]">>

\* ---- C15 ----------------------------------------------------------------
XfadeOutputs(graph) ==
    {graph[k].out : k \in {j \in 1..Len(graph) : graph[j].chain[1].f = "xfade"}}

\* C15: the crossfade nodes form one linear chain: the first consumes [v0]
\* and [v1], the k-th (k >= 2) consumes [x(k-1)] and [vk], each produces
\* [xk]; no node of the graph combines two crossfade outputs, and once the
\* chain is built there are exactly N-1 crossfade nodes.
C15_LinearCrossfadeChain ==
    LET xs == NodesWith(filterComplex, "xfade") IN
    /\ \A k \in 1..Len(xs) :
          /\ xs[k].ins = IF k = 1
                         THEN <<"[v0]", "[v1]">>
                         ELSE <<"[x" \o Itoa(k - 1) \o "]",
                                "[v" \o Itoa(k) \o "]">>
          /\ xs[k].out = "[x" \o Itoa(k) \o "]"
    /\ \A k \in 1..Len(filterComplex) :
          Cardinality({j \in 1..Len(filterComplex[k].ins) :
                         filterComplex[k].ins[j]
                            \in XfadeOutputs(filterComplex)}) <= 1
    /\ ChainBuilt => Len(xs) = Len(files) - 1

C15_Witness ==
    /\ ChainBuilt
    /\ Len(files) = 3
    /\ Len(NodesWith(filterComplex, "xfade")) = 2
    /\ NodesWith(filterComplex, "xfade")[2].ins = <<"[x1]", "[v2]">>

\* ---- C16 ----------------------------------------------------------------
\* C16: with D > F > 0 the offsets of the crossfade nodes, in chain order,
\* are strictly increasing.
C16_OffsetsIncrease ==
    (duration > fadeDuration /\ fadeDuration > 0) =>
        LET off == XfadeOffsets(filterComplex) IN
        \A j, k \in 1..Len(off) : j < k => off[j] < off[k]

C16_Witness ==
    /\ ChainBuilt
    /\ duration > fadeDuration /\ fadeDuration > 0
    /\ Len(XfadeOffsets(filterComplex)) >= 2
    /\ XfadeOffsets(filterComplex)[1] < XfadeOffsets(filterComplex)[2]

\* ---- C19 ----------------------------------------------------------------
\* the files an argument list names as inputs, in order: ffmpeg numbers its
\* inputs 0, 1, ... by the order of the -i options
InputFiles(s) ==
    LET P == {k \in 1..Len(s) - 1 : s[k] = "-i"}
        nth(n) == CHOOSE k \in P : Cardinality({j \in P : j < k}) = n - 1
    IN [n \in 1..Cardinality(P) |-> s[nth(n) + 1]]

\* C19: image file i of the enumeration is input i of the argument list and
\* feeds [vi] through [i:v]; with audio, the mp3 is the input after all N
\* image inputs and the audio fade node reads [N:a].
C19_InputIndices ==
    LET N  == Len(files)
        in == InputFiles(IF ArgsBuilt THEN args ELSE inputs)
    IN /\ pc \in {"images", "xfade"} => Len(in) = index
       /\ \A i \in 0..index - 1 :
             /\ in[i + 1] = files[i + 1]
             /\ filterComplex[NodeProducing(filterComplex,
                                            "[v" \o Itoa(i) \o "]")].ins
                  = <<"[" \o Itoa(i) \o ":v]">>
       /\ GraphBuilt =>
             /\ index = N
             /\ Len(in) = IF hasAudio THEN N + 1 ELSE N
             /\ hasAudio =>
                  /\ in[N + 1] = musicFiles[1]
                  /\ filterComplex[NodeProducing(filterComplex,
                                                 "[musicout]")].ins
                       = <<"[" \o Itoa(N) \o ":a]">>

C19_Witness ==
    /\ ArgsBuilt /\ hasAudio
    /\ Len(files) = 3
    /\ InputFiles(args) = files \o <<musicFiles[1]>>
    /\ filterComplex[Len(filterComplex)].ins = <<"[3:a]">>

\* ---- C17 ----------------------------------------------------------------
BaseFlagNames == {"-pix_fmt", "-movflags", "-r", "-s"}

\* C17: whichever of the seven branches is taken, the settings returned start
\* with -pix_fmt yuv420p -movflags +faststart -r 30 -s 3840x2160, the
\* backend's flags follow from "-c:v" on, and none of them sets a base
\* parameter again.
C17_BaseSettingsFirst ==
    SettingsShown =>
        /\ Len(settings) > 8
        /\ SubSeq(settings, 1, 8) =
             <<"-pix_fmt", "yuv420p", "-movflags", "+faststart", "-r", "30",
               "-s", "3840x2160">>
        /\ settings[9] = "-c:v"
        /\ settings[10] \in Range(PriorityOrder)
        /\ \A k \in 9..Len(settings) : settings[k] \notin BaseFlagNames

C17_Witness ==
    /\ dpc = "done"
    /\ has.hasVAAPI
    /\ settings[10] = VAAPI
    /\ settings[7] = "-s" /\ settings[8] = "3840x2160"

\* ---- C18 ----------------------------------------------------------------
\* C18: encoder selection depends on the probe results only: any two calls
\* of getOptimalVideoSettings that observed the same six probe results
\* returned the same flag list, whatever was called before them.
C18_SelectionIsPure ==
    \A i, j \in 1..Len(calls) :
        calls[i].probes = calls[j].probes
            => calls[i].settings = calls[j].settings

C18_Witness ==
    /\ Len(calls) = 2
    /\ calls[1].probes = calls[2].probes
    /\ calls[1].probes.hasQSV /\ ~calls[1].probes.hasNVENC
    /\ calls[2].settings = selectSettings(calls[2].probes)

\* ---- C20 ----------------------------------------------------------------
\* C20: a call of ConvertImages that finds no converted directory and fewer
\* than two *.jpg files returns the error for that count ("no .jpg files
\* found in current directory" for none, "need at least 2 images to create a
\* video, found only 1" for one) and creates no converted directory.
C20_TooFewImagesNoDirectory ==
    [][(cpc \in {"call", "returned"} /\ ~convertedDir /\ Len(jpgFiles) < 2
        /\ convertCalls' = convertCalls + 1)
       => /\ cpc' = "returned"
          /\ convErr' = IF Len(jpgFiles) = 0
                        THEN "no .jpg files found in current directory"
                        ELSE "need at least 2 images to create a video, "
                                 \o "found only 1"
          /\ ~convertedDir'
          /\ convertedFiles' = {}
          /\ ~skipped']_vars

C20_Witness ==
    /\ cpc = "returned"
    /\ convertCalls = 1
    /\ Len(jpgFiles) = 1
    /\ ~convertedDir
    /\ convErr = "need at least 2 images to create a video, found only 1"

\* ---- C21 ----------------------------------------------------------------
ConvertSucceeded == cpc = "returned" /\ convErr = "nil" /\ ~skipped

\* C21: when ConvertImages has gone through its loop and returned nil on
\* N >= 2 source images, the converted directory holds exactly N files, one
\* per source image.
C21_OneFramePerSource ==
    (ConvertSucceeded /\ Len(jpgFiles) >= 2)
        => Cardinality(convertedFiles) = Len(jpgFiles)

\* ---- C22 ----------------------------------------------------------------
IsFadeIn(e) == e.f = "fade" /\ e.t = "in"

FadeInNodes(graph) ==
    SelectSeq(graph, LAMBDA n : \E k \in 1..Len(n.chain) : IsFadeIn(n.chain[k]))

\* C22: once clip 0 is in the graph there is exactly one fade-in node: it is
\* clip 0's node (reads [0:v], produces [v0]), its fade-in starts at 0 and
\* lasts F, directly after the zoompan with Ken Burns and first in the chain
\* without; no clip with index >= 1 carries a fade-in.
C22_SingleFadeIn ==
    LET fi == FadeInNodes(filterComplex) IN
    IF index = 0
    THEN fi = <<>>
    ELSE /\ Len(fi) = 1
         /\ fi[1].ins = <<"[0:v]">>
         /\ fi[1].out = "[v0]"
         /\ LET k == IF applyKenBurns THEN 2 ELSE 1 IN
            /\ fi[1].chain[k] =
                 [f |-> "fade", t |-> "in", st |-> 0, d |-> fadeDuration]
            /\ \A j \in 1..Len(fi[1].chain) :
                 IsFadeIn(fi[1].chain[j]) => j = k
            /\ applyKenBurns => fi[1].chain[1].f = "zoompan"
         /\ \A i \in 1..index - 1 :
              LET n == filterComplex[NodeProducing(filterComplex,
                                                   "[v" \o Itoa(i) \o "]")]
              IN \A j \in 1..Len(n.chain) : ~IsFadeIn(n.chain[j])

C22_Witness ==
    /\ GraphBuilt
    /\ applyKenBurns
    /\ Len(files) = 3
    /\ fadeDuration = 2
    /\ Len(FadeInNodes(filterComplex)) = 1
    /\ FadeInNodes(filterComplex)[1].chain[2].d = 2

\* ---- C23 ----------------------------------------------------------------
\* ffmpeg's quoting: what stands between the first quote of a filter string
\* and the next one is the quoted text
QuotedText(str) ==
    LET quotes == {k \in 1..Len(str) : str[k] = "'"}
        open   == CHOOSE k \in quotes : \A j \in quotes : k <= j
        close  == CHOOSE k \in quotes \ {open} :
                      \A j \in quotes \ {open} : k <= j
    IN SubSeq(str, open + 1, close - 1)

\* C23: the overlay text placed in the drawtext node cannot end the quoted
\* text early: what ffmpeg reads as the quoted text of the node is the whole
\* overlay text.
C23_OverlayTextEscaped ==
    (opc = "attached" /\ drawn # <<>>) => QuotedText(drawn) = clipOverlay

\* ---- C28 ----------------------------------------------------------------
\* C28: the overlay attached to a clip comes from the source image the
\* clip's frame was converted from: the file whose camera information is
\* drawn has the timestamp the frame's name carries.
C28_OverlayFromOwnSource ==
    (opc = "attached" /\ drawn # <<>>)
        => /\ originalFile # NoFile
           /\ FetchImageTimestamp(originalFile) = timestampOf(frameName)

\* ---- C24 ----------------------------------------------------------------
SpinnerStarted == spin # "none"

\* C24: once the spinner goroutine is started, done is open and unclosed
\* while the main flow waits for ffmpeg, and closed by exactly one
\* close(done) from then on, on the failure path (before the fatal exit) and
\* on the success path (before the report) alike; it is never closed twice.
C24_DoneClosedOnce ==
    /\ closes <= 1
    /\ SpinnerStarted =>
         \/ pc = "wait" /\ done = "open" /\ closes = 0
         \/ /\ pc \in {"failing", "fatal", "report", "done"}
            /\ done = "closed"
            /\ closes = 1

C24_Witness ==
    /\ SpinnerStarted
    /\ pc = "report"
    /\ waitErr = "nil"
    /\ done = "closed" /\ closes = 1

\* ---- C25 ----------------------------------------------------------------
ClosedOnSuccess == done = "closed" /\ waitErr = "nil"

\* C25: on the success path, with the process running on, the spinner
\* goroutine returns some time after done is closed, and it prints at most
\* one progress frame after the close.
C25_SpinnerReturns ==
    /\ [](lateFrames <= 1)
    /\ ClosedOnSuccess ~> (spin = "returned")

C25_Witness ==
    /\ ClosedOnSuccess
    /\ spin = "returned"
    /\ lateFrames = 1

\* ---- C26 ----------------------------------------------------------------
ConvertFailed == cpc = "returned" /\ convErr \notin {"", "nil"}

\* C26: the call of ConvertImages that follows a call which returned an
\* error does not take the "folder already exists, skipping" path.
C26_NoSkipAfterFailure ==
    [][(ConvertFailed /\ convertCalls' = convertCalls + 1) => ~skipped']_vars

\* ---- C27 ----------------------------------------------------------------
\* how the report names each backend under "Selected Encoder" and under
\* "Encoding Strategy"
SelectedTitle ==
    [c \in Range(PriorityOrder) |->
        CASE c = NVENC -> "NVIDIA NVENC (highest priority)"
          [] c = VideoToolbox -> "Apple VideoToolbox"
          [] c = MediaFoundation -> "Windows Media Foundation"
          [] c = QSV -> "Intel Quick Sync Video"
          [] c = AMF -> "AMD Advanced Media Framework"
          [] c = VAAPI -> "Linux VAAPI"
          [] c = libx264 -> "CPU libx264 (software encoding)"]

StrategyBackend(line) ==
    CASE line = "NVIDIA NVENC: CQ 21 (constant quality)" -> NVENC
      [] line = "Media Foundation: Quality mode optimized for Snapdragon X"
           -> MediaFoundation
      [] line = "Intel QSV: Global quality 21 with look-ahead" -> QSV
      [] line = "AMD AMF: Constant QP mode (21 for all frame types)" -> AMF
      [] line = "Linux VAAPI: CRF 21 with hardware acceleration" -> VAAPI
      [] line = "CPU libx264: CRF 21 (software encoding)" -> libx264
      [] OTHER -> "unknown"

\* the -maxrate value a bitrate line of the strategy speaks of, "" for none
StrategyMaxrate(line) ==
    CASE line = "Bitrate: Variable (up to 15 Mbps for 4K)" -> "15M"
      [] line = "Bitrate: Variable (up to 12 Mbps for 4K)" -> "12M"
      [] line = "Bitrate: Variable (up to 10 Mbps for 4K)" -> "10M"
      [] line = "Bitrate: 8 Mbps target (up to 12 Mbps max)" -> "12M"
      [] OTHER -> ""

MaxrateOf(flags) ==
    IF \E k \in 1..Len(flags) - 1 : flags[k] = "-maxrate"
    THEN flags[(CHOOSE k \in 1..Len(flags) - 1 : flags[k] = "-maxrate") + 1]
    ELSE ""

\* C27: in the environment report, the backend named under "Selected
\* Encoder" and the backend and the maximum bitrate described under
\* "Encoding Strategy" are those of the settings getOptimalVideoSettings
\* returned.
C27_ReportMatchesSettings ==
    dpc = "done" =>
        /\ shown[2] = SelectedTitle[CodecOf(settings)]
        /\ StrategyBackend(shown[4][1]) = CodecOf(settings)
        /\ StrategyMaxrate(shown[4][2]) = MaxrateOf(settings)

\* ---- C29 ----------------------------------------------------------------
\* C29: for N >= 2 and D > F > 0 with audio present, the audio fade-out
\* starts at a non-negative time that is not earlier than the end of the
\* 2-second audio fade-in.
C29_AudioFadesDoNotOverlap ==
    (GraphBuilt /\ hasAudio /\ Len(files) >= 2
     /\ duration > fadeDuration /\ fadeDuration > 0)
        => LET node == filterComplex[NodeProducing(filterComplex,
                                                   "[musicout]")]
           IN /\ node.chain[2].t = "out"
              /\ node.chain[2].st >= 0
              /\ node.chain[2].st >= node.chain[1].st + node.chain[1].d

\* ---- C30 ----------------------------------------------------------------
\* the document as one sequence of parts, whatever its line breaks
Document(lines) == Concat(lines)

\* the duration member of the format section: the first "duration" after the
\* "format" member, "" when there is none
FormatDuration(lines) ==
    LET doc    == Document(lines)
        format == CHOOSE k \in 1..Len(doc) : doc[k] = "format"
        found  == {k \in format + 1..Len(doc) - 2 : doc[k] = "duration"}
    IN IF found = {} THEN ""
       ELSE doc[(CHOOSE k \in found : \A j \in found : k <= j) + 2]

\* C30: extractDuration returns the value of the format section's duration
\* member, with one member per line or the document on one line, with or
\* without a stream duration before it; it returns 0 only when that member is
\* absent or not a number.
C30_ContainerDuration ==
    ppc = "returned" =>
        durationSec = ParseFloat(FormatDuration(outputStr)).value

====
